---- MODULE Spec2Model ----
(***************************************************************************)
(* EnergyTrack (backend/main.py): a FastAPI service over two tables, users *)
(* and entries.  Every route handler is one action; GET /demo, which       *)
(* commits twice, is split at its commits.  Optional[T] values are sets:   *)
(* None is {} and a present value x is {x}.  Timestamps are minutes.       *)
(***************************************************************************)
EXTENDS Integers, Sequences, FiniteSets

VARIABLES users, entries, demo, resp, log

vars == <<users, entries, demo, resp, log>>

None == {}

Some(x) == {x}

The(o) == CHOOSE x \in o : TRUE

\* ---------------------------------------------------------------- bounds
MaxUsers == 2

MaxCreates == 1

MaxListCreates == 3

MaxDemos == 1

MaxDemoCreates == 2

Now0 == 10000

\* Secret keys the service can hand out, and one more that it never does.
Tokens == {100 + k : k \in 1..(MaxUsers + 1)}

\* Values of datetime.utcnow() a GET /demo request may read.
Nows == {Now0}

\* Timestamps a client sends: that of the newest seeded entry of a demo
\* user created at Now0, and a newer one.
ClientTimestamps == {Now0 - 5, Now0 + 1}

DemoSlots == 1..MaxDemos

\* ------------------------------------------------------------ validation
\* Request bodies of POST /api/u/{secret}/entries as the client sends them;
\* timestamp None is a body whose timestamp is missing or does not parse.
Bodies ==
  [timestamp : {None} \cup {Some(t) : t \in ClientTimestamps},
   description : {None, Some("walk")},
   energy : {None} \cup {Some(e) : e \in {0, 1, 10, 11}}]

\* timestamp: datetime is a required field.
FieldsParse(body) == body.timestamp # None

\* The validator without its range check, and with the range 0..10.
check_at_least_one_no_range(self) ==
  ~(self.description = None /\ self.energy = None)

check_at_least_one_off_by_one(self) ==
  /\ ~(self.description = None /\ self.energy = None)
  /\ ~(self.energy # None /\ (The(self.energy) < 0 \/ The(self.energy) > 10))

\* TRUE when the validator returns self, FALSE when it raises ValueError.
check_at_least_one(self) ==
  /\ ~(self.description = None /\ self.energy = None)
  /\ ~(self.energy # None /\ (The(self.energy) < 1 \/ The(self.energy) > 10))

\* The framework builds the EntryCreate argument before it calls the
\* handler: field parsing, then the mode="after" validator.
EntryCreate(body) == FieldsParse(body) /\ check_at_least_one(body)

\* A response that shows the owner's id in place of the row's.
EntryResponseUserId(row) ==
  [id |-> row.user_id, timestamp |-> row.timestamp,
   description |-> row.description, energy |-> row.energy]

\* class EntryResponse: the four fields a client is shown of a row.
EntryResponse(row) ==
  [id |-> row.id, timestamp |-> row.timestamp,
   description |-> row.description, energy |-> row.energy]

\* --------------------------------------------------------------- storage
\* The largest element of a set of naturals, 0 for the empty set.
MaxOf(S) == IF S = {} THEN 0 ELSE CHOOSE x \in S : \A y \in S : y <= x

\* Integer primary keys generated by the store: one more than the largest.
NextId(rows) == MaxOf({r.id : r \in rows}) + 1

\* User(): a row with a fresh secret key.  Keys are opaque and unique, so
\* the least unused token stands for any fresh one.
FreshSecret == CHOOSE k \in Tokens : (\A u \in users : u.secret_key # k)
                  /\ (\A j \in Tokens : (\A u \in users : u.secret_key # j) => k <= j)

NewUser == [id |-> NextId(users), secret_key |-> FreshSecret]

\* A lookup that forgets its filter.
QueryUserAny(secret) == users

\* db.query(User).filter(User.secret_key == secret).first(), as a set.
QueryUser(secret) == {u \in users : u.secret_key = secret}

\* A listing query that forgets its filter.
QueryEntriesAll(user) == entries

\* db.query(Entry).filter(Entry.user_id == user.id)
QueryEntries(user) == {e \in entries : e.user_id = user.id}

\* The least timestamp among rows (rows is not empty).
MinTs(rows) ==
  LET ts == {r.timestamp : r \in rows}
  IN CHOOSE t \in ts : \A u \in ts : t <= u

\* The ordering without .desc(): oldest first.
RECURSIVE OrderAsc(_)
OrderAsc(rows) ==
  IF rows = {} THEN {<<>>}
  ELSE LET m == MinTs(rows)
           first == {e \in rows : e.timestamp = m}
       IN UNION {{<<e>> \o rest : rest \in OrderAsc(rows \ {e})} : e \in first}

\* .order_by(Entry.timestamp.desc()).all(): every sequence of the rows the
\* ordering allows (rows of equal timestamp come in any order).  Built from
\* its end: a row of least timestamp comes last.
RECURSIVE OrderByTimestampDesc(_)
OrderByTimestampDesc(rows) ==
  IF rows = {} THEN {<<>>}
  ELSE LET m == MinTs(rows)
           last == {e \in rows : e.timestamp = m}
       IN UNION {{rest \o <<e>> : rest \in OrderByTimestampDesc(rows \ {e})} : e \in last}

\* An add that writes the row at once, as a commit inside the loop would.
AddAutocommit(stored, pending, obj) ==
  [stored |-> stored \cup {[obj EXCEPT !.id = NextId(stored)]}, pending |-> pending]

\* db.add(obj): the object waits in the session; the table is not written.
Add(stored, pending, obj) ==
  [stored |-> stored, pending |-> Append(pending, obj)]

\* db.commit(): every pending object becomes a row; the store numbers the
\* new rows consecutively in the order they were added.
Commit(stored, pending) ==
  stored \cup {[pending[k] EXCEPT !.id = NextId(stored) + k - 1] : k \in 1..Len(pending)}

\* ------------------------------------------------------------- responses
Url(path, secret) == [path |-> path, secret |-> secret]

\* A redirect built from the user's id.
UserUrlById(user) == Url("/u/", Some(user.id))

\* f"/u/{user.secret_key}"
UserUrl(user) == Url("/u/", Some(user.secret_key))

\* A request (route, secret, payload) with the answer it got.
Response(route, secret, payload, status, kind, location, json) ==
  [route |-> route, secret |-> secret, payload |-> payload, status |-> status,
   kind |-> kind, location |-> location, json |-> json]

\* RedirectResponse(url=...) is built without a status_code, so it carries
\* the class's default, 307 Temporary Redirect.
RedirectResponse(route, url) ==
  Response(route, None, None, 307, "redirect", Some(url), <<>>)

\* raise HTTPException(status_code=404, detail="User not found")
HTTPException(route, secret, payload) ==
  Response(route, Some(secret), payload, 404, "error", None, <<>>)

\* The framework's answer to a body that EntryCreate rejects.
RequestValidationError(route, secret, payload) ==
  Response(route, Some(secret), payload, 422, "error", None, <<>>)

HTMLResponse(route, secret) ==
  Response(route, Some(secret), None, 200, "html", None, <<>>)

JSONResponse(route, secret, payload, rows) ==
  Response(route, Some(secret), payload, 200, "json", None,
           [i \in 1..Len(rows) |-> EntryResponse(rows[i])])

\* A request that ended in an unhandled failure.
ServerError(route) ==
  Response(route, None, None, 500, "error", None, <<>>)

\* ------------------------------------------------------------- demo data
\* The literal table of create_demo_user.
demo_entries ==
  <<
    [minutes_ago |-> 5, description |-> "Just had coffee", energy |-> Some(6)],
    [minutes_ago |-> 45, description |-> "Woke up, feeling groggy", energy |-> Some(4)],
    [minutes_ago |-> 120, description |-> "Couldn't sleep well", energy |-> Some(3)],
    [minutes_ago |-> 180, description |-> "Late night snack - crackers", energy |-> None],
    [minutes_ago |-> 300, description |-> "Gaming session", energy |-> Some(5)],
    [minutes_ago |-> 420, description |-> "Dinner - pasta with pesto", energy |-> None],
    [minutes_ago |-> 540, description |-> "Afternoon walk", energy |-> Some(7)],
    [minutes_ago |-> 600, description |-> "Lunch - sandwich", energy |-> None],
    [minutes_ago |-> 720, description |-> "Morning meeting, tired", energy |-> Some(4)],
    [minutes_ago |-> 840, description |-> "Breakfast - oatmeal", energy |-> Some(6)],
    [minutes_ago |-> 1500, description |-> "McDonalds - 9 chicken mcnuggets", energy |-> None],
    [minutes_ago |-> 1515, description |-> "Extreme fatigue(!), brain turning off", energy |-> Some(2)],
    [minutes_ago |-> 1700, description |-> "Cheese bagel with chicken", energy |-> None],
    [minutes_ago |-> 1800, description |-> "Greek yogurt, mango, pecans", energy |-> Some(7)],
    [minutes_ago |-> 2880, description |-> "Sleep 9h, difficult to wake up", energy |-> Some(4)],
    [minutes_ago |-> 3000, description |-> "Bagel with scrambled eggs", energy |-> None],
    [minutes_ago |-> 3200, description |-> "Indomie with veggies", energy |-> None],
    [minutes_ago |-> 3400, description |-> "Focused work session", energy |-> Some(9)],
    [minutes_ago |-> 4320, description |-> "Woke up, black coffee", energy |-> Some(5)],
    [minutes_ago |-> 4500, description |-> "Pho for lunch", energy |-> None],
    [minutes_ago |-> 4680, description |-> "Afternoon slump", energy |-> Some(3)],
    [minutes_ago |-> 4800, description |-> "Evening cooking", energy |-> Some(6)],
    [minutes_ago |-> 5000, description |-> "Late night reading", energy |-> Some(5)],
    [minutes_ago |-> 5760, description |-> "Oatmeal with blueberries", energy |-> Some(6)],
    [minutes_ago |-> 5900, description |-> "Green tea, reading", energy |-> Some(7)],
    [minutes_ago |-> 6100, description |-> "Leftover pasta", energy |-> None],
    [minutes_ago |-> 6300, description |-> "Walk in the park", energy |-> Some(7)],
    [minutes_ago |-> 6500, description |-> "Salmon dinner", energy |-> None],
    [minutes_ago |-> 7200, description |-> "Slept in, croissant", energy |-> Some(6)],
    [minutes_ago |-> 7400, description |-> "Ramen for lunch", energy |-> None],
    [minutes_ago |-> 7600, description |-> "Vitamin D supplement", energy |-> None],
    [minutes_ago |-> 7800, description |-> "Stir fry tofu", energy |-> None],
    [minutes_ago |-> 8000, description |-> "Late night coding", energy |-> Some(4)],
    [minutes_ago |-> 8640, description |-> "Eggs and toast", energy |-> Some(7)],
    [minutes_ago |-> 8800, description |-> "Burrito bowl", energy |-> None],
    [minutes_ago |-> 9000, description |-> "Post-lunch crash", energy |-> Some(3)],
    [minutes_ago |-> 9200, description |-> "Espresso pick-me-up", energy |-> Some(6)],
    [minutes_ago |-> 9400, description |-> "Light dinner, soup", energy |-> None]
  >>

\* The offset added to the clock.
DemoTimestampAhead(now, entry_data) == now + entry_data.minutes_ago

\* timestamp = now - timedelta(minutes=entry_data["minutes_ago"])
DemoTimestamp(now, entry_data) == now - entry_data.minutes_ago

\* Entry(user_id=..., timestamp=..., description=..., energy=...), no id yet.
Entry(user_id, timestamp, description, energy) ==
  [id |-> 0, user_id |-> user_id, timestamp |-> timestamp,
   description |-> description, energy |-> energy]

DemoEntry(user, now, entry_data) ==
  Entry(user.id, DemoTimestamp(now, entry_data),
        Some(entry_data.description), entry_data.energy)

\* A loop that stops one entry early.
HasNextOffByOne(i) == i < Len(demo_entries) - 1

\* for entry_data in demo_entries: i entries have been taken so far.
HasNext(i) == i < Len(demo_entries)

\* The number of iterations the loop makes.
Iterations ==
  CHOOSE n \in 0..Len(demo_entries) : ~HasNext(n) /\ \A k \in 0..(n - 1) : HasNext(k)

\* The objects the loop hands to db.add, in order, when nothing interrupts it.
LoopEntries(user, now) ==
  [k \in 1..Iterations |-> DemoEntry(user, now, demo_entries[k])]

\* ----------------------------------------------------------------- state
IdleRequest == [pc |-> "idle", user |-> None, now |-> 0, i |-> 0, pending |-> <<>>]

\* resp is the answer of the request the last step completed; a step that
\* completes no request leaves NoResponse.
NoResponse == Response("none", None, None, 0, "none", None, <<>>)

\* History of what clients were told: one item per accepted create_entry
\* (with the id the response carried) and per seeded demo entry.
LogItem(secret, src, id, row) ==
  [secret |-> secret, src |-> src, id |-> id, timestamp |-> row.timestamp,
   description |-> row.description, energy |-> row.energy]

SeedItems(secret, pending) ==
  [k \in 1..Len(pending) |-> LogItem(secret, "seed", None, pending[k])]

CreatesDone == Cardinality({k \in 1..Len(log) : log[k].src = "create"})

Init ==
  /\ users = {}
  /\ entries = {}
  /\ demo = [d \in DemoSlots |-> IdleRequest]
  /\ resp = NoResponse
  /\ log = <<>>

\* --------------------------------------------------------------- actions
\* GET /
root ==
  /\ resp' = RedirectResponse("/", Url("/new", None))
  /\ UNCHANGED <<users, entries, demo, log>>

\* GET /new
create_new_user ==
  /\ Cardinality(users) < MaxUsers
  /\ LET user == NewUser
     IN /\ users' = users \cup {user}
        /\ resp' = RedirectResponse("/new", UserUrl(user))
  /\ UNCHANGED <<entries, demo, log>>

\* GET /u/{secret}
get_user_page(secret) ==
  /\ LET user == QueryUser(secret)
     IN resp' = IF user = {}
                THEN HTTPException("/u/{secret}", secret, None)
                ELSE HTMLResponse("/u/{secret}", secret)
  /\ UNCHANGED <<users, entries, demo, log>>

\* GET /api/u/{secret}/entries
get_entries(secret) ==
  /\ LET user == QueryUser(secret)
     IN IF user = {}
        THEN resp' = HTTPException("GET entries", secret, None)
        ELSE \E rows \in OrderByTimestampDesc(QueryEntries(The(user))) :
               resp' = JSONResponse("GET entries", secret, None, rows)
  /\ UNCHANGED <<users, entries, demo, log>>

\* POST /api/u/{secret}/entries
create_entry(secret, body) ==
  IF ~EntryCreate(body)
  THEN /\ resp' = RequestValidationError("POST entries", secret, Some(body))
       /\ UNCHANGED <<users, entries, demo, log>>
  ELSE LET user == QueryUser(secret)
       IN IF user = {}
          THEN /\ resp' = HTTPException("POST entries", secret, Some(body))
               /\ UNCHANGED <<users, entries, demo, log>>
          ELSE LET db_entry == Entry(The(user).id, The(body.timestamp),
                                     body.description, body.energy)
                   added == Add(entries, <<>>, db_entry)
                   stored == Commit(added.stored, added.pending)
                   row == CHOOSE r \in stored \ entries : TRUE
               IN /\ entries' = stored
                  /\ resp' = JSONResponse("POST entries", secret, Some(body), <<row>>)
                  /\ log' = Append(log, LogItem(secret, "create", Some(row.id), row))
                  /\ UNCHANGED <<users, demo>>

\* GET /demo up to its first commit and the reading of the clock.
demo_begin(d) ==
  /\ demo[d].pc = "idle"
  /\ Cardinality(users) < MaxUsers
  /\ \E now \in Nows :
       LET user == NewUser
       IN /\ users' = users \cup {user}
          /\ demo' = [demo EXCEPT ![d] = [pc |-> "loop", user |-> Some(user),
                                          now |-> now, i |-> 0, pending |-> <<>>]]
  /\ resp' = NoResponse
  /\ UNCHANGED <<entries, log>>

\* One iteration of the loop over demo_entries.
demo_add(d) ==
  /\ demo[d].pc = "loop"
  /\ HasNext(demo[d].i)
  /\ LET r == Add(entries, demo[d].pending,
                  DemoEntry(The(demo[d].user), demo[d].now, demo_entries[demo[d].i + 1]))
     IN /\ entries' = r.stored
        /\ demo' = [demo EXCEPT ![d].i = @ + 1, ![d].pending = r.pending]
  /\ resp' = NoResponse
  /\ UNCHANGED <<users, log>>

\* The second commit of GET /demo and its redirect.
demo_commit(d) ==
  /\ demo[d].pc = "loop"
  /\ ~HasNext(demo[d].i)
  /\ entries' = Commit(entries, demo[d].pending)
  /\ log' = log \o SeedItems(The(demo[d].user).secret_key, demo[d].pending)
  /\ resp' = RedirectResponse("/demo", UserUrl(The(demo[d].user)))
  /\ demo' = [demo EXCEPT ![d].pc = "done", ![d].pending = <<>>]
  /\ UNCHANGED users

\* The whole loop and the second commit, when nothing interrupts the loop.
demo_seed(d) ==
  /\ demo[d].pc = "loop"
  /\ demo[d].i = 0
  /\ LET pending == LoopEntries(The(demo[d].user), demo[d].now)
     IN /\ entries' = Commit(entries, pending)
        /\ log' = log \o SeedItems(The(demo[d].user).secret_key, pending)
  /\ resp' = RedirectResponse("/demo", UserUrl(The(demo[d].user)))
  /\ demo' = [demo EXCEPT ![d].pc = "done", ![d].i = Iterations]
  /\ UNCHANGED users

\* GET /demo cut short after its first commit: the session is released with
\* its pending objects rolled back.
demo_fail(d) ==
  /\ demo[d].pc = "loop"
  /\ demo' = [demo EXCEPT ![d].pc = "failed", ![d].pending = <<>>]
  /\ resp' = ServerError("/demo")
  /\ UNCHANGED <<users, entries, log>>

\* An accepted create_entry is counted against the bound; everything else
\* a client can send stays enabled.
Bounded(secret, body, max) ==
  (EntryCreate(body) /\ QueryUser(secret) # {}) => CreatesDone < max

Next ==
  \/ root
  \/ create_new_user
  \/ \E secret \in Tokens : get_user_page(secret)
  \/ \E secret \in Tokens : get_entries(secret)
  \/ \E secret \in Tokens, body \in Bodies :
       Bounded(secret, body, MaxCreates) /\ create_entry(secret, body)
  \/ \E d \in DemoSlots : demo_begin(d)
  \/ \E d \in DemoSlots : demo_seed(d)
  \/ \E d \in DemoSlots : demo_fail(d)

Spec == Init /\ [][Next]_vars

\* Bodies of the listing runs: two timestamps, sent in any order, and one
\* body the validator rejects.
ListBodies ==
  {b \in Bodies : /\ b.timestamp # None
                  /\ b.description # None
                  /\ b.energy \in {None, Some(11)}}

NextList ==
  \/ create_new_user
  \/ \E secret \in Tokens : get_entries(secret)
  \/ \E secret \in Tokens, body \in ListBodies :
       Bounded(secret, body, MaxListCreates) /\ create_entry(secret, body)
  \/ \E d \in DemoSlots : demo_begin(d)
  \/ \E d \in DemoSlots : demo_seed(d)
  \/ \E d \in DemoSlots : demo_fail(d)

SpecList == Init /\ [][NextList]_vars

\* Bodies sent while a demo user is being seeded.
DemoBodies ==
  {b \in Bodies : b.description # None /\ b.energy = None}

NextDemo ==
  \/ create_new_user
  \/ \E secret \in Tokens : get_entries(secret)
  \/ \E secret \in Tokens, body \in DemoBodies :
       Bounded(secret, body, MaxDemoCreates) /\ create_entry(secret, body)
  \/ \E d \in DemoSlots : demo_begin(d)
  \/ \E d \in DemoSlots : demo_add(d)
  \/ \E d \in DemoSlots : demo_commit(d)
  \/ \E d \in DemoSlots : demo_fail(d)

SpecDemo == Init /\ [][NextDemo]_vars

\* ---------------------------------------------------------------- claims
KeyRoutes == {"/u/{secret}", "GET entries", "POST entries"}

Listed(secret) ==
  /\ resp.route = "GET entries"
  /\ resp.status = 200
  /\ resp.secret = Some(secret)

Posted == resp.route = "POST entries"

\* What the claims call an invalid body, stated on the body itself.
BothNull(p) == p.description = None /\ p.energy = None

OutOfRange(p) == p.energy # None /\ The(p.energy) \notin 1..10

NoTimestamp(p) == p.timestamp = None

ItemsOf(secret) == {k \in 1..Len(log) : log[k].secret = secret}

CreatesOf(secret) == {k \in ItemsOf(secret) : log[k].src = "create"}

Fields(x) ==
  [timestamp |-> x.timestamp, description |-> x.description, energy |-> x.energy]

\* C1 as stated: a key-scoped request whose secret matches no user is
\* answered 404, whatever the body of a POST.
C1_Original ==
  (resp.route \in KeyRoutes /\ QueryUser(The(resp.secret)) = {})
    => resp.status = 404

\* C1 amended: for a secret that matches no stored user, GET /u/{secret}
\* and GET /api/u/{secret}/entries answer 404, POST answers 404 for a valid
\* body and 422 for an invalid one (the body is validated before the
\* handler looks the user up), and in each case the stored users and
\* entries are left unchanged.
C1_UnknownSecret ==
  [][(resp'.route \in KeyRoutes /\ (\A u \in users : Some(u.secret_key) # resp'.secret))
       => /\ resp'.status =
               IF /\ resp'.route = "POST entries"
                  /\ LET p == The(resp'.payload)
                     IN NoTimestamp(p) \/ BothNull(p) \/ OutOfRange(p)
               THEN 422 ELSE 404
          /\ UNCHANGED <<users, entries>>]_vars

C1_Witness ==
  /\ Posted
  /\ resp.status = 404
  /\ users # {}
  /\ QueryUser(The(resp.secret)) = {}

\* C2 as stated: for a known secret, create_entry answers 422 exactly when
\* description and energy are both null or energy is outside 1..10.
C2_Original ==
  (Posted /\ QueryUser(The(resp.secret)) # {})
    => LET p == The(resp.payload)
       IN (resp.status = 422) <=> (BothNull(p) \/ OutOfRange(p))

\* C2 amended: for a known secret, create_entry answers 422 exactly when
\* the timestamp is missing or unparseable, or description and energy are
\* both null, or energy is non-null and outside 1..10; a rejected request
\* inserts nothing, and an accepted one answers 200 and inserts exactly one
\* entry, owned by the resolved user, with the payload's three fields.
C2_Validation ==
  [][(resp'.route = "POST entries" /\ (\E u \in users : Some(u.secret_key) = resp'.secret))
       => LET p == The(resp'.payload)
              user == CHOOSE u \in users : Some(u.secret_key) = resp'.secret
          IN /\ (resp'.status = 422)
                  <=> (NoTimestamp(p) \/ BothNull(p) \/ OutOfRange(p))
             /\ resp'.status = 422 => entries' = entries
             /\ resp'.status # 422 =>
                  /\ resp'.status = 200
                  /\ users' = users
                  /\ \E e \in entries' \ entries :
                       /\ entries' = entries \cup {e}
                       /\ e.user_id = user.id
                       /\ e.timestamp = The(p.timestamp)
                       /\ e.description = p.description
                       /\ e.energy = p.energy]_vars

C2_Witness ==
  /\ Posted
  /\ resp.status = 200
  /\ The(resp.payload).energy = Some(10)
  /\ The(resp.payload).description = None
  /\ Cardinality(users) = 2

\* C3: the sequence get_entries returns is sorted by timestamp, newest
\* first, in whatever order the timestamps were supplied.
C3_SortedDescending ==
  \A secret \in Tokens :
    Listed(secret) =>
      \A i \in 1..(Len(resp.json) - 1) :
        resp.json[i].timestamp >= resp.json[i + 1].timestamp

\* A listing in which a later-created entry comes first and, elsewhere, an
\* earlier-created one does: the timestamps did not arrive in order.
C3_Witness ==
  \E secret \in Tokens :
    /\ Listed(secret)
    /\ \E i, j \in 1..Len(resp.json) :
         /\ i < j
         /\ resp.json[i].timestamp > resp.json[j].timestamp
         /\ resp.json[i].id > resp.json[j].id
    /\ \E i, j \in 1..Len(resp.json) :
         /\ i < j
         /\ resp.json[i].timestamp > resp.json[j].timestamp
         /\ resp.json[i].id < resp.json[j].id

\* C4: get_entries(secret) returns all and only the entries created under
\* that secret, by create_entry or by demo seeding, each once and with the
\* fields it was created with; a user with nothing created lists nothing.
C4_OwnEntriesOnly ==
  \A secret \in Tokens :
    Listed(secret) =>
      LET rows == resp.json
          at == 1..Len(rows)
      IN /\ Len(rows) = Cardinality(ItemsOf(secret))
         /\ \A k \in ItemsOf(secret) :
              Cardinality({i \in at : Fields(rows[i]) = Fields(log[k])})
                = Cardinality({j \in ItemsOf(secret) : Fields(log[j]) = Fields(log[k])})
         /\ \A k \in CreatesOf(secret) :
              \E i \in at : /\ Some(rows[i].id) = log[k].id
                            /\ Fields(rows[i]) = Fields(log[k])

C4_Witness ==
  \E secret \in Tokens :
    /\ Listed(secret)
    /\ CreatesOf(secret) # {}
    /\ \E other \in Tokens \ {secret} :
         /\ CreatesOf(other) # {}
         /\ ItemsOf(other) # CreatesOf(other)

\* The secret of a user GET /demo has finished seeding.
DemoDone(secret) ==
  \E d \in DemoSlots :
    /\ demo[d].pc = "done"
    /\ The(demo[d].user).secret_key = secret

\* C5 as stated: after a completed GET /demo and before any create_entry on
\* the new user, its entry list has exactly 37 entries.
C5_Original ==
  \A secret \in Tokens :
    (Listed(secret) /\ DemoDone(secret) /\ CreatesOf(secret) = {})
      => Len(resp.json) = 37

\* C5 amended: after a completed GET /demo and before any create_entry on
\* the new user, its entry list has exactly 38 entries.
C5_DemoCount ==
  \A secret \in Tokens :
    (Listed(secret) /\ DemoDone(secret) /\ CreatesOf(secret) = {})
      => Len(resp.json) = 38

C5_Witness ==
  \E secret \in Tokens :
    /\ Listed(secret)
    /\ DemoDone(secret)
    /\ CreatesOf(secret) = {}
    /\ \E other \in Tokens : CreatesOf(other) # {}

C7_IncreasingIds ==
  /\ \A i, j \in 1..Len(log) :
       (i < j /\ log[i].src = "create" /\ log[j].src = "create"
          /\ log[i].secret = log[j].secret)
         => The(log[i].id) < The(log[j].id)
  /\ \A secret \in Tokens :
       Listed(secret) =>
         \A k \in CreatesOf(secret) :
           \E n \in 1..Len(resp.json) : Some(resp.json[n].id) = log[k].id

C7_Witness ==
  \E secret \in Tokens :
    /\ Listed(secret)
    /\ \E i, j, k \in 1..Len(log) :
         /\ i < k /\ k < j
         /\ i \in CreatesOf(secret)
         /\ j \in CreatesOf(secret)
         /\ log[k].secret # secret

\* C8 as stated: the redirects of GET /, GET /new and GET /demo carry status
\* 302.
C8_Original == resp.kind = "redirect" => resp.status = 302

\* C8 amended: GET /, GET /new and GET /demo each answer with status 307;
\* / redirects to /new, and /new and /demo redirect to /u/{secret} where
\* secret is the key of the user that very request created.
C8_Redirects ==
  [][/\ resp'.route = "/" =>
          /\ resp'.status = 307
          /\ resp'.location = Some(Url("/new", None))
     /\ resp'.route = "/new" =>
          /\ resp'.status = 307
          /\ \E u \in users' \ users :
               /\ users' = users \cup {u}
               /\ resp'.location = Some(Url("/u/", Some(u.secret_key)))
     /\ \A d \in DemoSlots :
          (demo[d].pc = "idle" /\ demo'[d].pc = "loop") =>
            /\ demo'[d].user \cap users = {}
            /\ users' = users \cup demo'[d].user
     /\ (resp'.route = "/demo" /\ resp'.kind = "redirect") =>
          /\ resp'.status = 307
          /\ \E d \in DemoSlots :
               /\ demo[d].pc = "loop"
               /\ demo'[d].pc = "done"
               /\ resp'.location =
                    Some(Url("/u/", Some(The(demo[d].user).secret_key)))]_vars

C8_Witness ==
  /\ resp.route = "/demo"
  /\ resp.status = 307
  /\ Cardinality(users) = 2
  /\ \E d \in DemoSlots :
       /\ demo[d].pc = "done"
       /\ The(demo[d].user).id = 2

\* C9: every stored entry has a description or an energy, has an energy
\* that is null or within 1..10, and belongs to an existing user.
C9_StoredEntriesValid ==
  \A e \in entries :
    /\ ~(e.description = None /\ e.energy = None)
    /\ e.energy = None \/ The(e.energy) \in 1..10
    /\ \E u \in users : u.id = e.user_id

\* A rejected request arrives at a store that holds seeded and created rows.
C9_Witness ==
  /\ Posted
  /\ resp.status = 422
  /\ The(resp.payload).energy = Some(11)
  /\ CreatesDone = 1
  /\ Cardinality(entries) > 1

DemoDescriptions == {demo_entries[k].description : k \in 1..Len(demo_entries)}

\* The rows of the demo request d's user that came from the table.  Clients
\* of the model never send one of the table's descriptions.
SeededRows(d) ==
  {e \in entries : /\ e.user_id = The(demo[d].user).id
                   /\ \E x \in DemoDescriptions : e.description = Some(x)}

\* C10: in every state, also between the steps of a GET /demo request and
\* after one was cut short, the user it created has none or all of the
\* seeded entries stored.
C10_SeedAllOrNothing ==
  \A d \in DemoSlots :
    demo[d].user # None =>
      /\ Cardinality(SeededRows(d)) \in {0, Len(demo_entries)}
      /\ SeededRows(d) # {} <=> demo[d].pc = "done"

\* A request cut short in the middle of its loop, other users active.
C10_Witness ==
  \E d \in DemoSlots :
    /\ demo[d].pc = "failed"
    /\ demo[d].i > 1
    /\ demo[d].i < Len(demo_entries)
    /\ SeededRows(d) = {}
    /\ CreatesDone > 0

====
